---- MODULE Spec2Model ----
(***************************************************************************)
(* Model of server.py: the LUMINA local HTTP front-end for yt-dlp.         *)
(*                                                                         *)
(* The server is http.server.HTTPServer, which handles one request at a    *)
(* time: a handler runs to completion before the next request is read.     *)
(* The POST handler blocks on two external processes, so it is modelled as *)
(* a sequence of steps (h.pc) during which no other request is accepted.   *)
(*                                                                         *)
(* Request paths are sequences of tokens: "/" and path segments, so        *)
(* "/downloads/../server.py" is <<"/","downloads","/","..","/",            *)
(* "server.py">>.  File contents are sequences of integers (bytes).        *)
(***************************************************************************)
EXTENDS Integers, Sequences, FiniteSets, TLC

VARIABLES
    phase,      \* "boot" | "serving" | "exited"      (process life cycle)
    window,     \* how many times serve_forever has been entered
    interrupts, \* KeyboardInterrupts delivered so far
    checked,    \* check_yt_dlp() has returned True
    fs,         \* the disk: function from file path to file content
    nextId,     \* index of the next uuid4 value
    issued,     \* filename -> what a success response promised, GETs of its url
    h           \* the request being handled / the last one handled

vars == <<phase, window, interrupts, checked, fs, nextId, issued, h>>

\* ---------------------------------------------------------------- bounds
MaxDownloads == 2
MaxSize == 1

\* ------------------------------------------------------------- the disk
CWD == <<"app">>
DOWNLOADS_DIR == <<"app", "downloads">>
Dirs == {<<>>, <<"app">>, <<"app", "downloads">>}

ServerPy == <<"app", "server.py">>
IndexHtml == <<"app", "index.html">>

InitialFs == (ServerPy :> <<101>>) @@ (IndexHtml :> <<102>>)

UuidNames == <<"u1.mp4", "u2.mp4", "u3.mp4", "u4.mp4">>

\* f"{uuid.uuid4().hex}.{ext}": a name no earlier request was given
safe_filename(n) == UuidNames[n]

\* os.remove / Path.unlink of a file the handler has just seen; it succeeds
Remove(files, p) == [q \in (DOMAIN files) \ {p} |-> files[q]]
WriteFile(files, p, c) == (p :> c) @@ Remove(files, p)

\* ---------------------------------------------------------- path helpers
StartsWith(s, pre) == Len(s) >= Len(pre) /\ SubSeq(s, 1, Len(pre)) = pre

DownloadsPrefix == <<"/", "downloads", "/">>

\* str.replace(old, ''): every non-overlapping occurrence, left to right
RECURSIVE Replace(_, _)
Replace(s, old) ==
    IF s = <<>> THEN <<>>
    ELSE IF StartsWith(s, old) THEN Replace(SubSeq(s, Len(old) + 1, Len(s)), old)
    ELSE <<Head(s)>> \o Replace(Tail(s), old)

\* the segments of a path string; empty segments vanish
RECURSIVE Parts(_)
Parts(s) ==
    IF s = <<>> THEN <<>>
    ELSE IF Head(s) = "/" THEN Parts(Tail(s))
    ELSE <<Head(s)>> \o Parts(Tail(s))

\* pathlib's  base / name : an absolute right operand replaces the base
JoinPath(base, name) ==
    IF name # <<>> /\ Head(name) = "/" THEN Parts(name) ELSE base \o Parts(name)

ENOENT == <<"ENOENT">>
Parent(p) == IF p = <<>> THEN <<>> ELSE SubSeq(p, 1, Len(p) - 1)

\* what the operating system makes of a path: "." and ".." are followed
\* through directories that exist
RECURSIVE Walk(_, _)
Walk(cur, comps) ==
    IF comps = <<>> THEN cur
    ELSE IF cur \notin Dirs THEN ENOENT
    ELSE IF Head(comps) = "." THEN Walk(cur, Tail(comps))
    ELSE IF Head(comps) = ".." THEN Walk(Parent(cur), Tail(comps))
    ELSE Walk(Append(cur, Head(comps)), Tail(comps))

Resolve(p) == Walk(<<>>, p)

IsFile(files, p) == Resolve(p) \in DOMAIN files
Exists(files, p) == Resolve(p) \in Dirs \/ IsFile(files, p)
UnderDownloads(p) == StartsWith(p, DOWNLOADS_DIR) /\ Len(p) > Len(DOWNLOADS_DIR)

\* posixpath.normpath, as SimpleHTTPRequestHandler.translate_path applies it
RECURSIVE Norm(_, _)
Norm(acc, comps) ==
    IF comps = <<>> THEN acc
    ELSE IF Head(comps) = "." THEN Norm(acc, Tail(comps))
    ELSE IF Head(comps) = ".." THEN Norm(Parent(acc), Tail(comps))
    ELSE Norm(Append(acc, Head(comps)), Tail(comps))

translate_path(path) == CWD \o Norm(<<>>, Parts(path))

\* ------------------------------------------------------------ responses
CORS == << <<"Access-Control-Allow-Origin", "*">>,
           <<"Access-Control-Allow-Methods", "GET, POST, OPTIONS">>,
           <<"Access-Control-Allow-Headers", "Content-Type">> >>

end_headers_NoCors(hdrs) == hdrs

\* LUMINARequestHandler.end_headers: the CORS headers, then the base class
end_headers(hdrs) == hdrs \o CORS

NoResponse == [status |-> 0, headers |-> <<>>, json |-> <<>>, bytes |-> <<>>, sent |-> 0]

Respond(status, hdrs, json, bytes) ==
    [status |-> status, headers |-> hdrs, json |-> json, bytes |-> bytes, sent |-> 1]

\* BaseHTTPRequestHandler.send_error, as the handler calls it
send_error(code) ==
    Respond(code,
            end_headers(<< <<"Content-Type", "text/html">>, <<"Content-Length", "len">> >>),
            <<>>, <<>>)

send_json_response(data, status_code) ==
    Respond(status_code,
            end_headers(<< <<"Content-Type", "application/json">>,
                           <<"Content-Length", "len">>,
                           <<"Access-Control-Allow-Origin", "*">> >>),
            data, <<>>)

ErrorPayload(msg) == [status |-> "error", error |-> msg]

\* ------------------------------------------------------- request record
NoDuration == [kind |-> "number", secs |-> 0]

NoRequest ==
    [pc |-> "none", method |-> "", path |-> <<>>, cl |-> "", body |-> "",
     window |-> 0, spawned |-> <<>>, running |-> "", killed |-> <<>>,
     timedOut |-> FALSE, metaRc |-> 0, metaErr |-> "", metaOut |-> "", duration |-> NoDuration,
     filename |-> "", fileId |-> 0, attempt |-> 0, reads |-> <<>>,
     removed |-> {}, escaped |-> FALSE, resp |-> NoResponse]

NewRequest(method, path) ==
    [NoRequest EXCEPT !.method = method, !.path = path, !.window = window]

Idle == h.pc \in {"none", "done"}
Accepting == phase = "serving" /\ Idle

Done(r, resp) == [r EXCEPT !.pc = "done", !.running = "", !.resp = resp]

\* ------------------------------------------------------------------ GET
Names == {safe_filename(i) : i \in 1..MaxDownloads}
Url(name) == <<"/", "downloads", "/", name>>

GetPaths ==
    { <<"/">>,
      <<"/", "server.py">>,
      <<"/", "downloads">>,
      <<"/", "downloads", "/">>,
      <<"/", "downloads", "/", "nothere">>,
      <<"/", "downloads", "/", "..", "/", "server.py">>,
      <<"/", "downloads", "/", "/", "app", "/", "server.py">>,
      <<"/", "api", "/", "download">> }
    \cup { Url(n) : n \in Names }
    \cup { <<"/", "downloads", "/", "/", "downloads", "/", n>> : n \in Names }

\* SimpleHTTPRequestHandler.do_GET: a file below the working directory
StaticGet(files, path) ==
    LET p == translate_path(path)
        index == Append(p, "index.html")
        ok(c) == Respond(200,
                         end_headers(<< <<"Content-type", "guessed">>,
                                        <<"Content-Length", "len">> >>),
                         <<>>, c)
    IN  IF p \in Dirs
        THEN IF path[Len(path)] # "/"
             THEN Respond(301, end_headers(<< <<"Location", "path/">>,
                                              <<"Content-Length", "0">> >>),
                          <<>>, <<>>)
             ELSE IF index \in DOMAIN files THEN ok(files[index])
             ELSE ok(<<>>)
        ELSE IF p \in DOMAIN files THEN ok(files[p])
        ELSE send_error(404)

DownloadFilePath(path) == JoinPath(DOWNLOADS_DIR, Replace(path, DownloadsPrefix))

ServeDownload(files, filepath) ==
    Respond(200,
            end_headers(<< <<"Content-type", "video/mp4">>,
                           <<"Content-Disposition", "attachment">>,
                           <<"Content-Length", "len">> >>),
            <<>>, files[Resolve(filepath)])

Bump(name) ==
    IF name \in DOMAIN issued
    THEN [issued EXCEPT ![name].gets = IF @ = 0 THEN 1 ELSE 2]
    ELSE issued

UrlName(path) ==
    IF Len(path) = 4 /\ StartsWith(path, DownloadsPrefix) THEN path[4] ELSE ""

do_GET(path) ==
    /\ Accepting
    /\ LET r == NewRequest("GET", path)
           filepath == DownloadFilePath(path)
       IN  IF path = <<"/">>
           THEN /\ h' = Done(r, StaticGet(fs, <<"/", "index.html">>))
                /\ fs' = fs
           ELSE IF StartsWith(path, DownloadsPrefix)
           THEN IF Exists(fs, filepath) /\ IsFile(fs, filepath)
                THEN /\ h' = Done([r EXCEPT !.removed = {Resolve(filepath)}],
                                  ServeDownload(fs, filepath))
                     /\ fs' = Remove(fs, Resolve(filepath))
                ELSE /\ h' = Done(r, send_error(404))
                     /\ fs' = fs
           ELSE /\ h' = Done(r, StaticGet(fs, path))
                /\ fs' = fs
    /\ issued' = Bump(UrlName(path))
    /\ UNCHANGED <<phase, window, interrupts, checked, nextId>>

\* -------------------------------------------------------------- OPTIONS
AnyPaths == { <<"/">>, <<"/", "api", "/", "download">>, <<"/", "downloads", "/", "nothere">> }

do_OPTIONS(path) ==
    /\ Accepting
    /\ h' = Done(NewRequest("OPTIONS", path), Respond(200, end_headers(CORS), <<>>, <<>>))
    /\ UNCHANGED <<phase, window, interrupts, checked, fs, nextId, issued>>

\* ----------------------------------------------------------------- POST
ApiPath == <<"/", "api", "/", "download">>
PostPaths == { ApiPath, <<"/", "downloads", "/", "nothere">> }

ContentLengths == {"numeric", "absent", "nonnumeric", "negative"}
Bodies == {"empty", "nonutf8", "badjson", "array", "scalar", "emptyobj",
           "urlnull", "urlempty", "urlnonstring", "url"}

\* bodies in which json.loads(...).get('url') does not give a usable url
NoUrlBodies == {"empty", "emptyobj", "array", "scalar", "urlnull", "urlempty"}

SizeRetries == 3

Durations == { [kind |-> "number", secs |-> 0],
               [kind |-> "number", secs |-> 3725],
               [kind |-> "text", secs |-> 0] }

\* format_time: '--:--' for a falsy value, H:MM:SS or M:SS for a number;
\* floor division of anything else raises
format_time(seconds) ==
    IF seconds.kind = "number" /\ seconds.secs = 0
    THEN [raised |-> FALSE, text |-> <<"--", "--">>]
    ELSE IF seconds.kind # "number"
    THEN [raised |-> TRUE, text |-> <<>>]
    ELSE LET hours == seconds.secs \div 3600
             minutes == (seconds.secs % 3600) \div 60
             secs == seconds.secs % 60
         IN  IF hours > 0
             THEN [raised |-> FALSE, text |-> <<hours, minutes, secs>>]
             ELSE [raised |-> FALSE, text |-> <<minutes, secs>>]

\* int(self.headers.get('Content-Length', 0)); self.rfile.read(content_length)
ReadBody(cl, body) ==
    IF cl \in {"nonnumeric", "negative"} THEN "ValueError"
    ELSE IF cl = "absent" THEN "empty"
    ELSE body

FilePathOf(r) == Append(DOWNLOADS_DIR, r.filename)
FileBytes(id, n) == [i \in 1..n |-> id]

ServerError == send_json_response(ErrorPayload("Server error"), 500)

TimeoutError_As500 == send_json_response(ErrorPayload("Download timeout (file too large?)"), 500)

\* except subprocess.TimeoutExpired
TimeoutError == send_json_response(ErrorPayload("Download timeout (file too large?)"), 504)

\* lines 91-112: read the request, parse it, start the metadata process
handle_yt_dlp_download(cl, body) ==
    LET r == [NewRequest("POST", ApiPath) EXCEPT !.cl = cl, !.body = body]
        data == ReadBody(cl, body)
    IN  IF data = "ValueError"
        THEN [r EXCEPT !.pc = "done", !.escaped = TRUE]
        ELSE IF data \in {"empty", "badjson"}
        THEN Done(r, send_json_response(ErrorPayload("Invalid JSON in request"), 400))
        ELSE IF data \in {"nonutf8", "array", "scalar", "urlnonstring"}
        THEN Done(r, ServerError)
        ELSE IF data \in {"emptyobj", "urlnull", "urlempty"}
        THEN Done(r, send_json_response([error |-> "URL not provided"], 400))
        ELSE [r EXCEPT !.pc = "meta", !.running = "meta", !.spawned = <<"meta">>]

do_POST(path, cl, body) ==
    /\ Accepting
    /\ nextId <= MaxDownloads
    /\ h' = IF path = ApiPath
            THEN handle_yt_dlp_download(cl, body)
            ELSE Done(NewRequest("POST", path), send_error(404))
    /\ UNCHANGED <<phase, window, interrupts, checked, fs, nextId, issued>>

\* subprocess.run(..., timeout=10) raised TimeoutExpired: the child is killed
MetaTimeout ==
    /\ h.pc = "meta"
    /\ h' = Done([h EXCEPT !.killed = Append(@, "meta"), !.timedOut = TRUE], TimeoutError)
    /\ UNCHANGED <<phase, window, interrupts, checked, fs, nextId, issued>>

MetaOutputs == {"notjson", "array", "object"}
ToolErrors == {"", "ERROR: Unsupported URL"}

MetaFailed_Ignored(returncode) == FALSE

\* if info_result.returncode != 0
MetaFailed(returncode) == returncode # 0

\* lines 114-158: the metadata process has exited
MetaExit(rc, stderr, stdout, duration) ==
    /\ h.pc = "meta"
    /\ LET r == [h EXCEPT !.metaRc = rc,
                           !.metaErr = IF MetaFailed(rc) THEN stderr ELSE "",
                           !.metaOut = IF MetaFailed(rc) THEN "" ELSE stdout,
                           !.running = ""]
       IN  IF MetaFailed(rc)
           THEN /\ h' = Done(r, send_json_response(
                               ErrorPayload(IF stderr # "" THEN stderr
                                            ELSE "Failed to get video info"), 400))
                /\ nextId' = nextId
           ELSE IF stdout = "notjson"
           THEN /\ h' = Done(r, send_json_response(
                               ErrorPayload("Invalid video info response"), 400))
                /\ nextId' = nextId
           ELSE IF stdout = "array"
           THEN /\ h' = Done(r, ServerError)
                /\ nextId' = nextId
           ELSE /\ h' = [r EXCEPT !.pc = "dl", !.running = "dl",
                                  !.spawned = Append(@, "dl"),
                                  !.duration = duration,
                                  !.filename = safe_filename(nextId),
                                  !.fileId = nextId]
                /\ nextId' = nextId + 1
    /\ UNCHANGED <<phase, window, interrupts, checked, fs, issued>>

\* what the download process left at its output path: nothing (-1) or n bytes
Written == (-1)..MaxSize

AfterTool(r, wrote) ==
    IF wrote < 0 THEN fs ELSE WriteFile(fs, FilePathOf(r), FileBytes(r.fileId, wrote))

\* subprocess.run(..., timeout=600) raised TimeoutExpired
DownloadTimeout(wrote) ==
    /\ h.pc = "dl"
    /\ fs' = AfterTool(h, wrote)
    /\ h' = Done([h EXCEPT !.killed = Append(@, "dl"), !.timedOut = TRUE], TimeoutError)
    /\ UNCHANGED <<phase, window, interrupts, checked, nextId, issued>>

\* lines 196-223: the size is settled; reject an empty file or report success
Finish(r, files, file_size) ==
    IF file_size = 0
    THEN [req |-> Done([r EXCEPT !.removed = {FilePathOf(r)}],
                       send_json_response(ErrorPayload("Downloaded file is empty"), 400)),
          files |-> Remove(files, FilePathOf(r)),
          issued |-> issued]
    ELSE IF format_time(r.duration).raised
    THEN [req |-> Done(r, ServerError), files |-> files, issued |-> issued]
    ELSE [req |-> Done(r, send_json_response(
                        [status |-> "success",
                         duration |-> r.duration.secs,
                         filesize |-> file_size,
                         filename |-> r.filename,
                         url |-> Url(r.filename),
                         desc |-> format_time(r.duration).text], 200)),
          files |-> files,
          issued |-> (r.filename :> [bytes |-> files[FilePathOf(r)], gets |-> 0]) @@ issued]

\* lines 160-194: the download process has exited; first look at the file
DownloadExit(rc, stderr, stdout, wrote) ==
    /\ h.pc = "dl"
    /\ LET files == AfterTool(h, wrote)
           r == [h EXCEPT !.running = ""]
           size == Len(files[FilePathOf(r)])
           fin == Finish([r EXCEPT !.reads = <<size>>], files, size)
       IN  IF rc # 0
           THEN /\ h' = Done(r, send_json_response(
                               ErrorPayload(IF stderr # "" THEN stderr
                                            ELSE IF stdout # "" THEN stdout
                                            ELSE "Download failed"), 400))
                /\ fs' = files
                /\ issued' = issued
           ELSE IF FilePathOf(r) \notin DOMAIN files
           THEN /\ h' = Done(r, send_json_response(
                               ErrorPayload("File was not created"), 400))
                /\ fs' = files
                /\ issued' = issued
           ELSE IF size > 0
           THEN /\ h' = fin.req
                /\ fs' = fin.files
                /\ issued' = fin.issued
           ELSE /\ h' = [r EXCEPT !.pc = "size", !.reads = <<size>>]
                /\ fs' = files
                /\ issued' = issued
    /\ UNCHANGED <<phase, window, interrupts, checked, nextId>>

\* lines 189-194: one pass of the retry loop; the file may have grown
\* during the sleep
Recheck(grow) ==
    /\ h.pc = "size"
    /\ LET path == FilePathOf(h)
           files == WriteFile(fs, path, fs[path] \o FileBytes(h.fileId, grow))
           size == Len(files[path])
           r == [h EXCEPT !.attempt = @ + 1, !.reads = Append(@, size)]
           fin == Finish(r, files, size)
       IN  IF size > 0 \/ r.attempt = SizeRetries
           THEN /\ h' = fin.req
                /\ fs' = fin.files
                /\ issued' = fin.issued
           ELSE /\ h' = r
                /\ fs' = files
                /\ issued' = issued
    /\ UNCHANGED <<phase, window, interrupts, checked, nextId>>

\* ------------------------------------------------------ process life cycle
\* check_yt_dlp: the tool is there (then upgraded, best effort), or it is
\* installed; False when the install fails
check_yt_dlp(present, upgraded, installed) ==
    IF present THEN TRUE ELSE installed

\* the first start_server, up to serve_forever; sys.exit(1) on a failed check
start_server(present, upgraded, installed) ==
    /\ phase = "boot"
    /\ IF check_yt_dlp(present, upgraded, installed)
       THEN /\ phase' = "serving"
            /\ window' = 1
            /\ checked' = TRUE
       ELSE /\ phase' = "exited"
            /\ UNCHANGED <<window, checked>>
    /\ UNCHANGED <<interrupts, fs, nextId, issued, h>>

\* KeyboardInterrupt while serve_forever waits for a request: server_close(),
\* start_server returns and the module body runs on.  After the first
\* start_server that is the second definition of start_server and the second
\* __main__ block, which serve again; after the second the module ends.
KeyboardInterrupt ==
    /\ Accepting
    /\ interrupts' = interrupts + 1
    /\ IF window = 1
       THEN /\ window' = 2
            /\ phase' = "serving"
       ELSE /\ phase' = "exited"
            /\ window' = window
    /\ UNCHANGED <<checked, fs, nextId, issued, h>>

\* ------------------------------------------------------------ the system
Init ==
    /\ phase = "boot"
    /\ window = 0
    /\ interrupts = 0
    /\ checked = FALSE
    /\ fs = InitialFs
    /\ nextId = 1
    /\ issued = <<>>
    /\ h = NoRequest

Next ==
    \/ \E present, upgraded, installed \in BOOLEAN : start_server(present, upgraded, installed)
    \/ KeyboardInterrupt
    \/ \E path \in GetPaths : do_GET(path)
    \/ \E path \in AnyPaths : do_OPTIONS(path)
    \/ \E path \in PostPaths, cl \in ContentLengths, body \in Bodies : do_POST(path, cl, body)
    \/ MetaTimeout
    \/ \E rc \in {0, 1}, stderr \in ToolErrors, stdout \in MetaOutputs, d \in Durations :
          MetaExit(rc, stderr, stdout, d)
    \/ \E wrote \in Written : DownloadTimeout(wrote)
    \/ \E rc \in {0, 1}, stderr \in ToolErrors, stdout \in ToolErrors, wrote \in Written :
          DownloadExit(rc, stderr, stdout, wrote)
    \/ \E grow \in 0..MaxSize : Recheck(grow)

Spec == Init /\ [][Next]_vars

\* ============================================================ properties
Range(seq) == { seq[i] : i \in DOMAIN seq }

Answered == h.pc = "done" /\ h.resp.sent = 1
ApiPost == h.method = "POST" /\ h.path = ApiPath /\ h.pc = "done"

JsonField(k) == k \in DOMAIN h.resp.json
IsErrorPayload == JsonField("status") /\ h.resp.json.status = "error" /\ JsonField("error")
IsSuccess == h.resp.status = 200 /\ JsonField("status") /\ h.resp.json.status = "success"

\* a string contains the empty string and itself
Contains(text, part) == part = "" \/ text = part

\* C1: after a successful POST, the first GET of the returned url answers
\* 200 with exactly the bytes the download wrote, and every later GET of
\* that url answers 404, whatever other requests were served in between.
C1_UrlServedOnceThenGone ==
    \A n \in DOMAIN issued :
        (h.method = "GET" /\ h.pc = "done" /\ h.path = Url(n)) =>
            /\ issued[n].gets = 1 =>
                   h.resp.status = 200 /\ h.resp.bytes = issued[n].bytes
            /\ issued[n].gets = 2 => h.resp.status = 404

\* C2: a GET below /downloads/ streams and deletes a file only if that file
\* lies in the downloads directory; otherwise it answers 404 and touches no
\* file.
C2_OnlyDownloadsAreServed ==
    (h.method = "GET" /\ h.pc = "done" /\ StartsWith(h.path, DownloadsPrefix)) =>
        /\ \A p \in h.removed : UnderDownloads(p)
        /\ h.removed = {} => h.resp.status = 404 /\ h.resp.bytes = <<>>
        /\ h.removed # {} => h.resp.status = 200

\* C3: every answered POST /api/download that did not succeed has a non-2xx
\* status and a JSON body with status "error" and an error field.
C3_FailureIsErrorPayload ==
    (ApiPost /\ h.resp.sent = 1 /\ ~IsSuccess) =>
        /\ h.resp.status \notin 200..299
        /\ IsErrorPayload

\* C4: every POST /api/download is answered with exactly one JSON response;
\* no exception leaves handle_yt_dlp_download.
C4_AlwaysOneJsonResponse ==
    ApiPost =>
        /\ ~h.escaped
        /\ h.resp.sent = 1
        /\ <<"Content-Type", "application/json">> \in Range(h.resp.headers)

\* C5: a POST /api/download whose body has no url (empty body, {}, an array
\* or scalar, a null or empty url) gets a 4xx answer and starts no process.
C5_NoUrlIsClientError ==
    (ApiPost /\ ReadBody(h.cl, h.body) \in NoUrlBodies) =>
        /\ h.resp.status \in 400..499
        /\ h.spawned = <<>>

\* C6: when the metadata process exits non-zero the answer is an error whose
\* text contains its stderr and no download process is started; a download
\* process is only ever started after a metadata process that exited 0 with
\* a JSON object.
C6_MetadataFailureStopsDownload ==
    /\ (h.method = "POST" /\ h.metaRc # 0) =>
           /\ h.pc = "done"
           /\ h.resp.status \notin 200..299
           /\ IsErrorPayload
           /\ Contains(h.resp.json.error, h.metaErr)
           /\ h.spawned = <<"meta">>
    /\ "dl" \in Range(h.spawned) =>
           /\ h.spawned = <<"meta", "dl">>
           /\ h.metaRc = 0
           /\ h.metaOut = "object"
           /\ "meta" \notin Range(h.killed)

C6_Witness ==
    /\ ApiPost
    /\ h.metaRc # 0
    /\ h.metaErr # ""
    /\ h.resp.status = 400

\* C7: when the download exits 0 with an empty file, the size is read once
\* and at most SizeRetries more times; a file still empty is answered with
\* an error and is gone from disk, a file that became non-empty is answered
\* with success and that size.
C7_EmptyRejectedGrownAccepted ==
    (ApiPost /\ h.reads # <<>> /\ h.reads[1] = 0) =>
        LET size == h.reads[Len(h.reads)]
        IN  /\ Len(h.reads) <= 1 + SizeRetries
            /\ size = 0 =>
                   /\ Len(h.reads) = 1 + SizeRetries
                   /\ h.resp.status \notin 200..299
                   /\ IsErrorPayload
                   /\ FilePathOf(h) \notin DOMAIN fs
            /\ size > 0 =>
                   /\ IsSuccess
                   /\ h.resp.json.filesize = size

\* C8: a timeout of either tool invocation kills that process, starts no
\* further process for the request and is answered 504 with an error; no
\* other outcome is answered 504.
C8_TimeoutIs504 ==
    /\ h.timedOut =>
           /\ h.pc = "done"
           /\ h.running = ""
           /\ h.spawned # <<>>
           /\ h.killed = <<h.spawned[Len(h.spawned)]>>
           /\ h.resp.status = 504
           /\ IsErrorPayload
    /\ (Answered /\ h.resp.status = 504) => h.timedOut
    /\ (Answered /\ h.method = "POST" /\ ~h.timedOut) =>
           h.resp.status \in {200, 400, 404, 500}

C8_Witness ==
    /\ ApiPost
    /\ h.timedOut
    /\ h.killed = <<"dl">>
    /\ h.resp.status = 504

\* C9: every response carries the three CORS headers, and OPTIONS on any
\* path is answered 200 with an empty body.
C9_CorsOnEveryResponse ==
    /\ h.resp.sent = 1 => \A c \in Range(CORS) : c \in Range(h.resp.headers)
    /\ (h.method = "OPTIONS" /\ h.pc = "done") =>
           /\ h.resp.sent = 1
           /\ h.resp.status = 200
           /\ h.resp.bytes = <<>>
           /\ DOMAIN h.resp.json = {}

C9_Witness ==
    /\ h.method = "GET"
    /\ h.resp.status = 404
    /\ \A c \in Range(CORS) : c \in Range(h.resp.headers)

\* C10: requests are served in one window only: serving starts after the
\* tool check succeeded, and nothing is served once the first
\* KeyboardInterrupt has closed the server.
C10_OneServingWindow ==
    /\ phase = "serving" => checked
    /\ h.pc # "none" => checked /\ h.window = 1
    /\ (interrupts >= 1 /\ h.pc # "none") => h.window = 1

\* C11: no orphan files: once a POST /api/download has been answered with an
\* error, no file with its generated name is left in the downloads
\* directory; between requests the directory holds only files whose url a
\* success response returned and that no GET of that url has fetched yet.
C11_NoOrphanFiles ==
    /\ (ApiPost /\ h.resp.sent = 1 /\ ~IsSuccess /\ h.filename # "") =>
           FilePathOf(h) \notin DOMAIN fs
    /\ Idle =>
           \A p \in DOMAIN fs :
               UnderDownloads(p) =>
                   /\ p[Len(p)] \in DOMAIN issued
                   /\ issued[p[Len(p)]].gets = 0

====
